---- MODULE Spec2Model ----
(***************************************************************************)
(* Model of the netatmo-rs client core (src/src/client.rs): the two client *)
(* states, the request pipeline api_call and the status classifier         *)
(* general_err_handler.                                                    *)
(*                                                                         *)
(* Values.  A response body is a text; the model keeps texts parsed: a     *)
(* text that is not JSON is Raw(s), a JSON text is the value it denotes    *)
(* (JStr, JInt, JObj, JArr).  An error is its cause chain, outermost      *)
(* first, as a                                                             *)
(* sequence of records [kind |-> ..., ...].                                *)
(***************************************************************************)
EXTENDS Integers, Sequences, FiniteSets, TLC

VARIABLES clients, nextHttp, lastCall, cls, pipe

vars == <<clients, nextHttp, lastCall, cls, pipe>>

\* Number of client values a run constructs.
MaxClients == 2

Slots == 1..MaxClients

----------------------------------------------------------------------------
\* JSON texts

Raw(s) == [t |-> "raw", s |-> s, n |-> 0]
JStr(s) == [t |-> "str", s |-> s, n |-> 0]
JInt(n) == [t |-> "int", s |-> "", n |-> n]
JObj(f) == [t |-> "obj", f |-> f]

HasField(j, k, ty) == j.t = "obj" /\ k \in DOMAIN j.f /\ j.f[k].t = ty

\* A JSON array of the values in a
JArr(a) == [t |-> "arr", a |-> a]

NoDetails == [ok |-> FALSE, details |-> [code |-> 0, message |-> ""]]

\* Deserialize for ApiErrorDetails, as derived: from an object with an
\* integer "code" and a string "message" (other fields are ignored), or from
\* an array of exactly the two, in the order of the fields.
ApiErrorDetails_deserialize(d) ==
    IF HasField(d, "code", "int") /\ HasField(d, "message", "str")
    THEN [ok |-> TRUE,
          details |-> [code |-> d.f["code"].n, message |-> d.f["message"].s]]
    ELSE IF d.t = "arr" /\ Len(d.a) = 2 /\ d.a[1].t = "int" /\ d.a[2].t = "str"
    THEN [ok |-> TRUE,
          details |-> [code |-> d.a[1].n, message |-> d.a[2].s]]
    ELSE NoDetails

\* Mutant: the details field is not renamed to "error".
from_str_ApiError_unrenamed(body) ==
    IF body.t = "obj" /\ "details" \in DOMAIN body.f
    THEN ApiErrorDetails_deserialize(body.f["details"])
    ELSE IF body.t = "arr" /\ Len(body.a) = 1
    THEN ApiErrorDetails_deserialize(body.a[1])
    ELSE NoDetails

\* serde_json::from_str::<ApiError>, as derived: from an object whose "error"
\* holds the details (other fields are ignored), or from an array of exactly
\* the details.
from_str_ApiError(body) ==
    IF body.t = "obj" /\ "error" \in DOMAIN body.f
    THEN ApiErrorDetails_deserialize(body.f["error"])
    ELSE IF body.t = "arr" /\ Len(body.a) = 1
    THEN ApiErrorDetails_deserialize(body.a[1])
    ELSE NoDetails

NoVal == [none |-> TRUE]

NoToken == [access_token |-> "", refresh_token |-> "", expires_in |-> 0]

\* serde_json::from_str::<Token>
from_str_Token(body) ==
    IF /\ HasField(body, "access_token", "str")
       /\ HasField(body, "refresh_token", "str")
       /\ HasField(body, "expires_in", "int")
    THEN [ok |-> TRUE,
          val |-> [access_token |-> body.f["access_token"].s,
                   refresh_token |-> body.f["refresh_token"].s,
                   expires_in |-> body.f["expires_in"].n]]
    ELSE [ok |-> FALSE, val |-> NoVal]

\* serde_json::from_str::<T> for an endpoint's payload type
from_str_Payload(body) ==
    IF HasField(body, "status", "str") /\ HasField(body, "time_server", "int")
    THEN [ok |-> TRUE,
          val |-> [status |-> body.f["status"].s,
                   time_server |-> body.f["time_server"].n]]
    ELSE [ok |-> FALSE, val |-> NoVal]

\* serde_json::from_str::<T>(&body), T one of the payload types
from_str(T, body) ==
    IF T = "Token" THEN from_str_Token(body) ELSE from_str_Payload(body)

PayloadTypes == {"Token", "Payload"}

----------------------------------------------------------------------------
\* Errors

ReqwestError == [kind |-> "reqwest::Error"]
SerdeError == [kind |-> "serde_json::Error"]

AuthenticationFailed == [kind |-> "AuthenticationFailed"]
FailedToSendRequest == [kind |-> "FailedToSendRequest"]
FailedToReadResponse == [kind |-> "FailedToReadResponse"]
JsonDeserializationFailed == [kind |-> "JsonDeserializationFailed"]
ApiCallFailed(name, code, msg) ==
    [kind |-> "ApiCallFailed", name |-> name, code |-> code, msg |-> msg]
UnknownApiCallFailure(name, status_code) ==
    [kind |-> "UnknownApiCallFailure", name |-> name, status_code |-> status_code]

\* Error::from(kind)
ErrorFrom(kind) == <<kind>>

\* e.context(kind): kind classifies, e stays as the cause
context(e, kind) == <<kind>> \o e

NoError == <<>>

----------------------------------------------------------------------------
\* Responses

StatusOK == 200

ErrorEligible == {400, 401, 403, 404, 406, 500}

NoResponse == [status |-> 0, body |-> Raw(""), readable |-> FALSE]

\* The arm of the error-eligible statuses: text(), then the envelope
known_error_arm(res, name) ==
    IF ~res.readable
    THEN [ok |-> FALSE, res |-> NoResponse, read |-> TRUE,
          err |-> context(<<ReqwestError>>,
                          UnknownApiCallFailure(name, res.status))]
    ELSE IF ~from_str_ApiError(res.body).ok
    THEN [ok |-> FALSE, res |-> NoResponse, read |-> TRUE,
          err |-> context(<<SerdeError>>,
                          UnknownApiCallFailure(name, res.status))]
    ELSE [ok |-> FALSE, res |-> NoResponse, read |-> TRUE,
          err |-> ErrorFrom(ApiCallFailed(name,
                      from_str_ApiError(res.body).details.code,
                      from_str_ApiError(res.body).details.message))]

\* The arm of every other status
unknown_arm(res, name) ==
    [ok |-> FALSE, res |-> NoResponse, read |-> FALSE,
     err |-> ErrorFrom(UnknownApiCallFailure(name, res.status))]

\* The arm of the expected status
pass_arm(res) == [ok |-> TRUE, res |-> res, read |-> FALSE, err |-> NoError]

\* Mutant: the eligible statuses are matched before the expected one.
general_err_handler_eligible_first(res, name, expected_status) ==
    IF res.status \in ErrorEligible THEN known_error_arm(res, name)
    ELSE IF res.status = expected_status THEN pass_arm(res)
    ELSE unknown_arm(res, name)

\* Mutant: every unexpected status is tried as an error envelope.
general_err_handler_always_decode(res, name, expected_status) ==
    IF res.status = expected_status THEN pass_arm(res)
    ELSE known_error_arm(res, name)

\* Response::general_err_handler(self, name, expected_status).  read tells
\* whether the body was consumed by text().
general_err_handler(res, name, expected_status) ==
    IF res.status = expected_status THEN pass_arm(res)
    ELSE IF res.status \in ErrorEligible THEN known_error_arm(res, name)
    ELSE unknown_arm(res, name)

----------------------------------------------------------------------------
\* Transport and pipeline

\* What the transport does with one request: send() fails, or a response.
SendFails == [sendOk |-> FALSE, res |-> NoResponse]
Responds(status, body, readable) ==
    [sendOk |-> TRUE,
     res |-> [status |-> status, body |-> body, readable |-> readable]]

NoRequest == [http |-> 0, url |-> "", params |-> [none |-> ""]]

Err(req, e) == [req |-> req, ok |-> FALSE, val |-> NoVal, err |-> e]
Ok(req, v) == [req |-> req, ok |-> TRUE, val |-> v, err |-> NoError]

\* Mutant: the response is decoded without passing the classifier.
api_call_unclassified(name, http, url, params, T, env) ==
    LET req == [http |-> http, url |-> url, params |-> params]
    IN  IF ~env.sendOk
        THEN Err(req, context(<<ReqwestError>>, FailedToSendRequest))
        ELSE IF ~env.res.readable
        THEN Err(req, context(<<ReqwestError>>, FailedToReadResponse))
        ELSE IF ~from_str(T, env.res.body).ok
        THEN Err(req, context(<<SerdeError>>, JsonDeserializationFailed))
        ELSE Ok(req, from_str(T, env.res.body).val)

\* api_call::<T>(name, http, url, params); env is the transport's behaviour.
\* req is the form-encoded POST handed to the transport.
api_call(name, http, url, params, T, env) ==
    LET req == [http |-> http, url |-> url, params |-> params]
        h == general_err_handler(env.res, name, StatusOK)
    IN  IF ~env.sendOk
        THEN Err(req, context(<<ReqwestError>>, FailedToSendRequest))
        ELSE IF ~h.ok
        THEN Err(req, h.err)
        ELSE IF ~h.res.readable
        THEN Err(req, context(<<ReqwestError>>, FailedToReadResponse))
        ELSE IF ~from_str(T, h.res.body).ok
        THEN Err(req, context(<<SerdeError>>, JsonDeserializationFailed))
        ELSE Ok(req, from_str(T, h.res.body).val)

\* HashMap::insert(k, v)
insert(params, k, v) ==
    [x \in (DOMAIN params) \cup {k} |-> IF x = k THEN v ELSE params[x]]

----------------------------------------------------------------------------
\* Clients

NoCredentials == [client_id |-> "", client_secret |-> ""]

NoClient ==
    [state |-> "none", client_credentials |-> NoCredentials,
     token |-> NoToken, http |-> 0]

\* A client value that was moved out of and dropped, its transport with it.
Consumed ==
    [state |-> "consumed", client_credentials |-> NoCredentials,
     token |-> NoToken, http |-> 0]

\* UnauthenticatedClient { client_credentials, http }
UnauthenticatedClient(client_credentials, http) ==
    [state |-> "unauth", client_credentials |-> client_credentials,
     token |-> NoToken, http |-> http]

\* AuthenticatedClient { token, http }
AuthenticatedClient(token, http) ==
    [state |-> "auth", client_credentials |-> NoCredentials,
     token |-> token, http |-> http]

\* UnauthenticatedClient::call
UnauthenticatedClient_call(self, name, url, params, T, env) ==
    api_call(name, self.http, url, params, T, env)

\* Mutant: the token is entered only when the key is vacant.
AuthenticatedClient_call_vacant(self, name, url, params, T, env) ==
    api_call(name, self.http, url,
             IF "access_token" \in DOMAIN params THEN params
             ELSE insert(params, "access_token", self.token.access_token),
             T, env)

\* AuthenticatedClient::call
AuthenticatedClient_call(self, name, url, params, T, env) ==
    api_call(name, self.http, url,
             insert(params, "access_token", self.token.access_token), T, env)

\* AuthenticatedClient::token
AuthenticatedClient_token(self) == self.token

AuthUrl == "https://api.netatmo.com/oauth2/token"

\* authenticate::refresh_token(&client, refresh_token): the parameters of
\* the exchange, as the binding hands them to call
refresh_token_params(self, rt) ==
    [grant_type |-> "refresh_token",
     refresh_token |-> rt,
     client_id |-> self.client_credentials.client_id,
     client_secret |-> self.client_credentials.client_secret]

\* authenticate::refresh_token(&client, refresh_token)
refresh_token(self, rt, env) ==
    UnauthenticatedClient_call(self, "refresh_token", AuthUrl,
        refresh_token_params(self, rt), "Token", env)

\* Mutant: the client is built from the wrong field of the decoded token.
authenticate_wrong_field(self, rt, env) ==
    LET r == refresh_token(self, rt, env)
    IN  IF r.ok
        THEN [req |-> r.req, ok |-> TRUE,
              val |-> AuthenticatedClient(
                         [r.val EXCEPT !.access_token = r.val.refresh_token],
                         self.http),
              err |-> NoError, rest |-> Consumed]
        ELSE [req |-> r.req, ok |-> FALSE, val |-> NoClient,
              err |-> context(r.err, AuthenticationFailed), rest |-> Consumed]

\* Mutant: the failure replaces the error instead of wrapping it.
authenticate_replace_error(self, rt, env) ==
    LET r == refresh_token(self, rt, env)
    IN  IF r.ok
        THEN [req |-> r.req, ok |-> TRUE,
              val |-> AuthenticatedClient(r.val, self.http),
              err |-> NoError, rest |-> Consumed]
        ELSE [req |-> r.req, ok |-> FALSE, val |-> NoClient,
              err |-> ErrorFrom(AuthenticationFailed), rest |-> Consumed]

\* Mutant: authenticate borrows the client, a failure leaves it usable.
authenticate_borrow(self, rt, env) ==
    LET r == refresh_token(self, rt, env)
    IN  IF r.ok
        THEN [req |-> r.req, ok |-> TRUE,
              val |-> AuthenticatedClient(r.val, self.http),
              err |-> NoError, rest |-> Consumed]
        ELSE [req |-> r.req, ok |-> FALSE, val |-> NoClient,
              err |-> context(r.err, AuthenticationFailed), rest |-> self]

\* UnauthenticatedClient::authenticate(self, refresh_token).  self is taken
\* by value: rest is what is left of it when the call returns.
authenticate(self, rt, env) ==
    LET r == refresh_token(self, rt, env)
    IN  IF r.ok
        THEN [req |-> r.req, ok |-> TRUE,
              val |-> AuthenticatedClient(r.val, self.http),
              err |-> NoError, rest |-> Consumed]
        ELSE [req |-> r.req, ok |-> FALSE, val |-> NoClient,
              err |-> context(r.err, AuthenticationFailed), rest |-> Consumed]

----------------------------------------------------------------------------
\* Endpoint bindings

EndpointNames ==
    {"get_homes_data", "get_home_status", "get_station_data",
     "get_homecoachs_data", "get_measure", "set_room_thermpoint"}

\* The fixed URL of each binding
EndpointUrl(name) ==
    CASE name = "get_homes_data" -> "https://api.netatmo.com/api/homesdata"
      [] name = "get_home_status" -> "https://api.netatmo.com/api/homestatus"
      [] name = "get_station_data" -> "https://api.netatmo.com/api/getstationsdata"
      [] name = "get_homecoachs_data" -> "https://api.netatmo.com/api/gethomecoachsdata"
      [] name = "get_measure" -> "https://api.netatmo.com/api/getmeasure"
      [] OTHER -> "https://api.netatmo.com/api/setroomthermpoint"

\* A binding get_x::get_x(&client, parameters): the serialized parameters go
\* through the authenticated call under the binding's name and URL.
binding(self, name, params, env) ==
    AuthenticatedClient_call(self, name, EndpointUrl(name), params, "Payload", env)

----------------------------------------------------------------------------
\* Inputs

Credentials ==
    {[client_id |-> "abc", client_secret |-> "xyz"],
     [client_id |-> "id2", client_secret |-> "s2"]}

RefreshTokens == {"rt-1", "rt-9"}

\* Tokens a caller hands to with_token
Tokens ==
    {[access_token |-> "tok-1", refresh_token |-> "rt-2", expires_in |-> 3600],
     [access_token |-> "tok-0", refresh_token |-> "rt-0", expires_in |-> 10800]}

\* Serialized endpoint parameters; one already holds an "access_token" entry
ParamMaps ==
    {[device_id |-> "70:ee:50"],
     [device_id |-> "70:ee:50", access_token |-> "stale"]}

TokenBody1 ==
    JObj([access_token |-> JStr("tok-1"), refresh_token |-> JStr("rt-2"),
          expires_in |-> JInt(3600)])
\* a token that is also an error envelope
TokenBody2 ==
    JObj([access_token |-> JStr("tok-2"), refresh_token |-> JStr("rt-3"),
          expires_in |-> JInt(10800),
          error |-> JObj([code |-> JInt(2), message |-> JStr("Invalid access token")])])
EnvelopeBody1 ==
    JObj([error |-> JObj([code |-> JInt(9), message |-> JStr("Invalid access token")])])
\* an envelope with a negative code, an empty message and further fields,
\* which is also an endpoint payload
EnvelopeBody2 ==
    JObj([error |-> JObj([code |-> JInt(-1), message |-> JStr(""), detail |-> JStr("x")]),
          status |-> JStr("failed"), time_server |-> JInt(7)])
PayloadBody ==
    JObj([status |-> JStr("ok"), time_server |-> JInt(1575)])
\* envelopes that are not well formed
CodeNotIntBody ==
    JObj([error |-> JObj([code |-> JStr("9"), message |-> JStr("Invalid access token")])])
NoMessageBody == JObj([error |-> JObj([code |-> JInt(9)])])
ErrorNotObjectBody == JObj([error |-> JStr("invalid_grant")])
\* the envelope or its details given as arrays of their fields
DetailsArrayBody == JObj([error |-> JArr(<<JInt(9), JStr("m")>>)])
EnvelopeArrayBody == JArr(<<JObj([code |-> JInt(9), message |-> JStr("m")])>>)
NestedArrayBody == JArr(<<JArr(<<JInt(9), JStr("m")>>)>>)
\* arrays of the wrong length
EmptyArrayBody == JArr(<<>>)
ShortDetailsArrayBody == JObj([error |-> JArr(<<JInt(9)>>)])
LongDetailsArrayBody == JObj([error |-> JArr(<<JInt(9), JStr("m"), JInt(1)>>)])

Bodies ==
    {Raw(""), Raw("<html>Bad Gateway</html>"), JStr("ok"),
     TokenBody1, TokenBody2, EnvelopeBody1, EnvelopeBody2, PayloadBody,
     CodeNotIntBody, NoMessageBody, ErrorNotObjectBody,
     DetailsArrayBody, EnvelopeArrayBody, NestedArrayBody,
     EmptyArrayBody, ShortDetailsArrayBody, LongDetailsArrayBody}

Statuses == {200, 201, 400, 401, 403, 404, 406, 500, 503}

ExpectedStatuses == {200, 201, 404}

Responses == [status : Statuses, body : Bodies, readable : BOOLEAN]

Envs == {SendFails} \cup [sendOk : {TRUE}, res : Responses]

CallNames == {"refresh_token", "get_station_data"}

----------------------------------------------------------------------------
\* State

NoOut == [req |-> NoRequest, ok |-> FALSE, val |-> NoVal, err |-> NoError]

NoCall ==
    [op |-> "none", client |-> 0, issuer |-> "none",
     params |-> [none |-> ""], env |-> SendFails, out |-> NoOut]

NoClassification ==
    [name |-> "", expected_status |-> 0, res |-> NoResponse,
     out |-> [ok |-> FALSE, res |-> NoResponse, read |-> FALSE, err |-> NoError]]

NoPipe ==
    [name |-> "", T |-> "", params |-> [none |-> ""], env |-> SendFails,
     out |-> NoOut]

Init ==
    /\ clients = [c \in Slots |-> NoClient]
    /\ nextHttp = 1
    /\ lastCall = NoCall
    /\ cls = NoClassification
    /\ pipe = NoPipe

\* The program is sequential: the caller has taken the outcome of one call
\* before it makes the next.
Idle == lastCall = NoCall

\* The caller takes the outcome of the call (expect, ?, match)
Return ==
    /\ ~Idle
    /\ lastCall' = NoCall
    /\ UNCHANGED <<clients, nextHttp, cls, pipe>>

\* NetatmoClient::new(&client_credentials)
New(client_credentials) ==
    /\ Idle
    /\ nextHttp \in Slots
    /\ clients' = [clients EXCEPT
                     ![nextHttp] = UnauthenticatedClient(client_credentials, nextHttp)]
    /\ nextHttp' = nextHttp + 1
    /\ UNCHANGED <<lastCall, cls, pipe>>

\* NetatmoClient::with_token(token)
WithToken(tok) ==
    /\ Idle
    /\ nextHttp \in Slots
    /\ clients' = [clients EXCEPT ![nextHttp] = AuthenticatedClient(tok, nextHttp)]
    /\ nextHttp' = nextHttp + 1
    /\ UNCHANGED <<lastCall, cls, pipe>>

\* client.authenticate(refresh_token) on an Unauthenticated client
Authenticate(c, rt, env) ==
    /\ Idle
    /\ clients[c].state = "unauth"
    /\ LET a == authenticate(clients[c], rt, env)
       IN  /\ clients' = [clients EXCEPT ![c] = IF a.ok THEN a.val ELSE a.rest]
           /\ lastCall' = [op |-> "authenticate", client |-> c,
                           issuer |-> clients[c].state,
                           params |-> refresh_token_params(clients[c], rt),
                           env |-> env,
                           out |-> [req |-> a.req, ok |-> a.ok, val |-> a.val,
                                    err |-> a.err]]
    /\ UNCHANGED <<nextHttp, cls, pipe>>

\* Mutant: the trait is implemented for both client states.
NetatmoSelf_any(self) == self.state \in {"auth", "unauth"}

\* impl Netatmo for AuthenticatedClient: the receiver of a trait method
NetatmoSelf(self) == self.state = "auth"

\* A trait method of Netatmo on client c, delegating to its binding
Endpoint(c, name, params, env) ==
    /\ Idle
    /\ NetatmoSelf(clients[c])
    /\ lastCall' = [op |-> name, client |-> c, issuer |-> clients[c].state,
                    params |-> params, env |-> env,
                    out |-> binding(clients[c], name, params, env)]
    /\ UNCHANGED <<clients, nextHttp, cls, pipe>>

get_homes_data(c, params, env) == Endpoint(c, "get_homes_data", params, env)
get_home_status(c, params, env) == Endpoint(c, "get_home_status", params, env)
get_station_data(c, params, env) == Endpoint(c, "get_station_data", params, env)
get_homecoachs_data(c, params, env) == Endpoint(c, "get_homecoachs_data", params, env)
get_measure(c, params, env) == Endpoint(c, "get_measure", params, env)
set_room_thermpoint(c, params, env) == Endpoint(c, "set_room_thermpoint", params, env)

Next ==
    \/ Idle /\ \E cr \in Credentials : New(cr)
    \/ Idle /\ \E tok \in Tokens : WithToken(tok)
    \/ Idle /\ \E c \in Slots, rt \in RefreshTokens, env \in Envs : Authenticate(c, rt, env)
    \/ Idle /\ \E c \in Slots, p \in ParamMaps, env \in Envs : get_homes_data(c, p, env)
    \/ Idle /\ \E c \in Slots, p \in ParamMaps, env \in Envs : get_home_status(c, p, env)
    \/ Idle /\ \E c \in Slots, p \in ParamMaps, env \in Envs : get_station_data(c, p, env)
    \/ Idle /\ \E c \in Slots, p \in ParamMaps, env \in Envs : get_homecoachs_data(c, p, env)
    \/ Idle /\ \E c \in Slots, p \in ParamMaps, env \in Envs : get_measure(c, p, env)
    \/ Idle /\ \E c \in Slots, p \in ParamMaps, env \in Envs : set_room_thermpoint(c, p, env)
    \/ Return

Spec == Init /\ [][Next]_vars

\* The classifier applied to one response
Classify(name, expected_status, res) ==
    /\ cls' = [name |-> name, expected_status |-> expected_status, res |-> res,
               out |-> general_err_handler(res, name, expected_status)]
    /\ UNCHANGED <<clients, nextHttp, lastCall, pipe>>

ClassifierNext ==
    \E name \in CallNames, e \in ExpectedStatuses, res \in Responses :
        Classify(name, e, res)

ClassifierSpec == Init /\ [][ClassifierNext]_vars

\* One pipeline call
ApiCall(name, params, T, env) ==
    /\ pipe' = [name |-> name, T |-> T, params |-> params, env |-> env,
                out |-> api_call(name, 1, EndpointUrl(name), params, T, env)]
    /\ UNCHANGED <<clients, nextHttp, lastCall, cls>>

PipelineNext ==
    \E name \in CallNames, p \in ParamMaps, T \in PayloadTypes, env \in Envs :
        ApiCall(name, p, T, env)

PipelineSpec == Init /\ [][PipelineNext]_vars

----------------------------------------------------------------------------
\* Properties

\* A body that is a well-formed error envelope {"error": {"code", "message"}}
WellFormedEnvelope(body) ==
    /\ HasField(body, "error", "obj")
    /\ HasField(body.f["error"], "code", "int")
    /\ HasField(body.f["error"], "message", "str")

EnvelopeCode(body) == body.f["error"].f["code"].n
EnvelopeMessage(body) == body.f["error"].f["message"].s

\* The exchange of the last call succeeded: 200 and a body that is a token
ExchangeSucceeds(env) ==
    /\ env.sendOk
    /\ env.res.status = StatusOK
    /\ env.res.readable
    /\ from_str_Token(env.res.body).ok

\* The classified error of each failing stage of a call named name that
\* decodes a T, as the error taxonomy gives it; that of the classify stage
\* is the classifier's
StageError(name, T, env) ==
    IF ~env.sendOk THEN <<FailedToSendRequest, ReqwestError>>
    ELSE IF env.res.status # StatusOK
    THEN general_err_handler(env.res, name, StatusOK).err
    ELSE IF ~env.res.readable THEN <<FailedToReadResponse, ReqwestError>>
    ELSE IF ~from_str(T, env.res.body).ok
    THEN <<JsonDeserializationFailed, SerdeError>>
    ELSE NoError

\* C1: when the token exchange succeeds, authenticate returns an
\* Authenticated client whose token() is the token decoded from the response
\* body, and the slot no longer holds an Unauthenticated client; for every
\* credential pair and refresh token.
C1_AuthenticateYieldsDecodedToken ==
    (lastCall.op = "authenticate" /\ ExchangeSucceeds(lastCall.env)) =>
        /\ lastCall.out.ok
        /\ lastCall.out.val.state = "auth"
        /\ AuthenticatedClient_token(lastCall.out.val).access_token
              = lastCall.env.res.body.f["access_token"].s
        /\ AuthenticatedClient_token(lastCall.out.val).refresh_token
              = lastCall.env.res.body.f["refresh_token"].s
        /\ AuthenticatedClient_token(lastCall.out.val).expires_in
              = lastCall.env.res.body.f["expires_in"].n
        /\ clients[lastCall.client] = lastCall.out.val
        /\ clients[lastCall.client].state # "unauth"
        /\ \A d \in Slots : d # lastCall.client =>
              clients[d].http # lastCall.out.val.http

\* The scenario of the specification: credentials abc/xyz, refresh token
\* rt-1, a 200 response carrying tok-1.
C1_Witness ==
    /\ lastCall.op = "authenticate"
    /\ lastCall.params["client_id"] = "abc"
    /\ lastCall.params["client_secret"] = "xyz"
    /\ lastCall.params["refresh_token"] = "rt-1"
    /\ lastCall.env = Responds(200, TokenBody1, TRUE)
    /\ lastCall.out.ok
    /\ AuthenticatedClient_token(clients[lastCall.client]).access_token = "tok-1"

\* C2: when the token exchange fails, at whichever stage, authenticate
\* returns an error classified AuthenticationFailed whose cause chain is the
\* classified error of that stage, unchanged; it returns no client.
C2_AuthenticateWrapsFailure ==
    (lastCall.op = "authenticate" /\ ~ExchangeSucceeds(lastCall.env)) =>
        /\ ~lastCall.out.ok
        /\ lastCall.out.val = NoClient
        /\ clients[lastCall.client].state # "auth"
        /\ Len(lastCall.out.err) >= 2
        /\ Head(lastCall.out.err) = AuthenticationFailed
        /\ Tail(lastCall.out.err)
              = StageError("refresh_token", "Token", lastCall.env)
        /\ \A i \in 2..Len(lastCall.out.err) :
              lastCall.out.err[i] # AuthenticationFailed

\* Each failing stage of the exchange
C2_StageSeen(kind) ==
    /\ lastCall.op = "authenticate"
    /\ ~lastCall.out.ok
    /\ Len(lastCall.out.err) >= 2
    /\ lastCall.out.err[2].kind = kind

C2_Witness ==
    /\ C2_StageSeen("ApiCallFailed")
    /\ lastCall.out.err[2].code = 9

\* C3: a request to a data or command endpoint is issued by a client in the
\* Authenticated state, which holds a token; a client in the Unauthenticated
\* state issues the authentication exchange only.
C3_EndpointsNeedAuthenticated ==
    lastCall.op # "none" =>
        /\ lastCall.out.req.url # AuthUrl =>
              /\ lastCall.op \in EndpointNames
              /\ lastCall.issuer = "auth"
              /\ clients[lastCall.client].state = "auth"
              /\ clients[lastCall.client].token # NoToken
        /\ lastCall.issuer # "auth" =>
              /\ lastCall.issuer = "unauth"
              /\ lastCall.op = "authenticate"
              /\ lastCall.out.req.url = AuthUrl

C3_Witness ==
    /\ lastCall.op = "get_station_data"
    /\ lastCall.out.req.url = EndpointUrl("get_station_data")
    /\ lastCall.issuer = "auth"
    /\ \E d \in Slots : clients[d].state = "unauth"

\* C4: a response with an error-eligible status other than the expected one
\* and a well-formed error envelope is classified ApiCallFailed with the
\* call's name and the envelope's code and message.
C4_EnvelopeGivesApiCallFailed ==
    (/\ cls.name # ""
     /\ cls.res.status \in {400, 401, 403, 404, 406, 500}
     /\ cls.res.status # cls.expected_status
     /\ cls.res.readable
     /\ WellFormedEnvelope(cls.res.body)) =>
        /\ ~cls.out.ok
        /\ cls.out.err = <<ApiCallFailed(cls.name, EnvelopeCode(cls.res.body),
                                         EnvelopeMessage(cls.res.body))>>

\* The scenario of the specification: 403 with code 9
C4_Witness ==
    /\ cls.name = "get_station_data"
    /\ cls.res = [status |-> 403, body |-> EnvelopeBody1, readable |-> TRUE]
    /\ cls.expected_status = 200
    /\ cls.out.err = <<ApiCallFailed("get_station_data", 9, "Invalid access token")>>

\* C5: a response with an error-eligible status other than the expected one
\* whose body cannot be read or is no well-formed envelope is classified
\* UnknownApiCallFailure with the call's name and the response's status;
\* never ApiCallFailed, a panic or a success.  The derived decoder also takes
\* the envelope and its details as arrays of their fields, and such a body
\* is classified ApiCallFailed.
C5_BadEnvelopeGivesUnknown ==
    (/\ cls.name # ""
     /\ cls.res.status \in {400, 401, 403, 404, 406, 500}
     /\ cls.res.status # cls.expected_status
     /\ (~cls.res.readable \/ ~WellFormedEnvelope(cls.res.body))) =>
        /\ ~cls.out.ok
        /\ Len(cls.out.err) = 2
        /\ cls.out.err[1] = UnknownApiCallFailure(cls.name, cls.res.status)
        /\ cls.out.err[2] =
              IF cls.res.readable THEN SerdeError ELSE ReqwestError

\* C6: a response whose status is neither the expected one nor
\* error-eligible is classified UnknownApiCallFailure with the call's name
\* and that status, its body unread, whatever the body is.
C6_OtherStatusGivesUnknownUnread ==
    (/\ cls.name # ""
     /\ cls.res.status \notin {400, 401, 403, 404, 406, 500}
     /\ cls.res.status # cls.expected_status) =>
        /\ ~cls.out.ok
        /\ ~cls.out.read
        /\ cls.out.err = <<UnknownApiCallFailure(cls.name, cls.res.status)>>

\* 503 with a well-formed envelope
C6_Witness ==
    /\ cls.name # ""
    /\ cls.res = [status |-> 503, body |-> EnvelopeBody1, readable |-> TRUE]
    /\ cls.out.err = <<UnknownApiCallFailure(cls.name, 503)>>

\* C7: a response whose status is the expected status is returned as it is,
\* its body unread, whatever the body and whatever the expected status.
C7_ExpectedStatusPasses ==
    (cls.name # "" /\ cls.res.status = cls.expected_status) =>
        /\ cls.out.ok
        /\ cls.out.res = cls.res
        /\ ~cls.out.read
        /\ cls.out.err = NoError

\* The expected status is error-eligible and the body is an envelope
C7_Witness ==
    /\ cls.name # ""
    /\ cls.expected_status = 404
    /\ cls.res = [status |-> 404, body |-> EnvelopeBody1, readable |-> TRUE]
    /\ cls.out.ok

\* A request is issued by client c in this step
Issues(c) == lastCall = NoCall /\ lastCall' # NoCall /\ lastCall'.client = c

\* C8: every request of an Authenticated client's call carries under
\* "access_token" the client's token, whatever the caller put under that key,
\* the other parameters as given; the token of a client never changes; a
\* request of the Unauthenticated call carries the parameters as given.
C8_TokenInsertedAtCall ==
    [][\A c \in Slots :
        /\ clients[c].state = "auth" =>
              /\ clients'[c].state = "auth"
              /\ clients'[c].token = clients[c].token
        /\ (Issues(c) /\ clients[c].state = "auth") =>
              /\ DOMAIN lastCall'.out.req.params
                    = (DOMAIN lastCall'.params) \cup {"access_token"}
              /\ lastCall'.out.req.params["access_token"]
                    = clients[c].token.access_token
              /\ \A k \in (DOMAIN lastCall'.params) \ {"access_token"} :
                    lastCall'.out.req.params[k] = lastCall'.params[k]
        /\ (Issues(c) /\ clients[c].state = "unauth") =>
              /\ DOMAIN lastCall'.out.req.params = DOMAIN lastCall'.params
              /\ \A k \in DOMAIN lastCall'.params :
                    lastCall'.out.req.params[k] = lastCall'.params[k]
              /\ "access_token" \notin DOMAIN lastCall'.out.req.params
      ]_vars

\* The caller had put a value under "access_token"
C8_Witness ==
    /\ lastCall.issuer = "auth"
    /\ "access_token" \in DOMAIN lastCall.params
    /\ lastCall.params["access_token"] = "stale"
    /\ lastCall.out.req.params["access_token"] = "tok-2"
    /\ clients[lastCall.client].token.access_token = "tok-2"

\* C9: the outcome of a pipeline call is that of the first failing stage in
\* the order send, classify, read, decode; the payload is returned only when
\* no stage fails; a call has exactly one outcome.
C9_FirstFailingStageDecides ==
    pipe.name # "" =>
        /\ pipe.out.err = StageError(pipe.name, pipe.T, pipe.env)
        /\ pipe.out.ok <=> (pipe.out.err = NoError)
        /\ pipe.out.ok <=> (pipe.out.val # NoVal)
        /\ pipe.out.ok =>
              /\ pipe.env.sendOk
              /\ pipe.env.res.status = StatusOK
              /\ pipe.env.res.readable
              /\ pipe.out.val = from_str(pipe.T, pipe.env.res.body).val
        /\ ~pipe.out.ok =>
              pipe.out.err[1].kind \in
                 {"FailedToSendRequest", "ApiCallFailed", "UnknownApiCallFailure",
                  "FailedToReadResponse", "JsonDeserializationFailed"}

\* A body that would decode, behind a status the classifier rejects
C9_Witness ==
    /\ pipe.T = "Payload"
    /\ pipe.env = Responds(403, EnvelopeBody2, TRUE)
    /\ pipe.out.err = <<ApiCallFailed(pipe.name, -1, "")>>

\* C10: authenticate consumes the Unauthenticated client whether it succeeds
\* or fails: after a failure the client and its transport handle are gone,
\* a consumed client issues no request, and a client is never Unauthenticated
\* again after an attempt.
C10_AuthenticateConsumes ==
    [][\A c \in Slots :
        /\ (Issues(c) /\ lastCall'.op = "authenticate") =>
              /\ clients[c].state = "unauth"
              /\ clients'[c].state # "unauth"
              /\ ~lastCall'.out.ok =>
                    /\ clients'[c].state = "consumed"
                    /\ \A d \in Slots : clients'[d].http # clients[c].http
        /\ clients[c].state \in {"auth", "consumed"} =>
              clients'[c].state = clients[c].state
        /\ clients[c].state = "consumed" =>
              /\ clients'[c] = clients[c]
              /\ ~Issues(c)
      ]_vars

\* After a failed attempt, a new client was constructed and authenticated
C10_Witness ==
    /\ clients[1].state = "consumed"
    /\ clients[2].state = "auth"
    /\ lastCall.op = "authenticate"
    /\ lastCall.client = 2
    /\ lastCall.out.ok

====
